---- MODULE Spec2Model ----
(***************************************************************************)
(* Model of imaginairy/cmds.py: the `imagine_cmd` (generate) command and   *)
(* the `aimg describe` command.                                            *)
(*                                                                         *)
(* Strings the code inspects (image references, tested with                *)
(* str.startswith) are sequences of one-character strings.  Strings the    *)
(* code only carries (prompt texts, enum values, float literals) are TLA+  *)
(* strings.  An optional value that the code only carries is a sequence of *)
(* length at most one: <<>> is Python's None, <<v>> is the value v.        *)
(* A Python value that may be None, a str or a LazyLoadingImage is a       *)
(* record [type, arg, value].                                              *)
(*                                                                         *)
(* imagine_cmd is a plain click command, so ctx.invoked_subcommand is None *)
(* whenever its body runs and the early return of lines 179-180 is never   *)
(* taken; suppress_annoying_logs_and_warnings, configure_logging and       *)
(* load_model change nothing the batch depends on.                         *)
(***************************************************************************)
EXTENDS Integers, Sequences, FiniteSets, TLC

VARIABLES
    cmd,                \* which command was invoked: "generate" | "describe"
    pc,                 \* position in the command
    args,               \* generate: the option values as click hands them over
    image_filepaths,    \* describe: the positional arguments
    sampler_type,       \* imagine_cmd local (reassigned at line 189)
    init_image,         \* imagine_cmd local (reassigned at line 193)
    total_image_count,  \* imagine_cmd local (line 184), logged at line 185
    switched,           \* the "Sampler type switched" notice was logged
    prompts,            \* imagine_cmd local list (line 195)
    batch,              \* the list imagine_image_files received
    calls,              \* number of calls of imagine_image_files
    imgs,               \* describe local list (line 238)
    out,                \* lines printed by describe
    attempted,          \* jobs (generate) / images (describe) attempted so far
    failed,             \* jobs the rendering backend reported as failed
    error               \* "" or the error that ended the command

vars == <<cmd, pc, args, image_filepaths, sampler_type, init_image,
          total_image_count, switched, prompts, batch, calls, imgs, out,
          attempted, failed, error>>

----------------------------------------------------------------------------
(* Bounds *)

MaxPrompts == 2
MaxRepeats == 2
MaxImages == 2

----------------------------------------------------------------------------
(* Values *)

None == <<>>
Some(v) == <<v>>

NoneValue == [type |-> "NoneType", arg |-> "", value |-> <<>>]
Str(s) == [type |-> "str", arg |-> "", value |-> s]

\* LazyLoadingImage(url=s) / LazyLoadingImage(filepath=s): a deferred
\* reference that remembers its origin; construction performs no I/O.
LazyLoadingImageUrl(s) == [type |-> "LazyLoadingImage", arg |-> "url", value |-> s]
LazyLoadingImageFilepath(s) ==
    [type |-> "LazyLoadingImage", arg |-> "filepath", value |-> s]

\* Python truthiness of an option value: None and "" are falsy.
Truthy(v) ==
    \/ v.type = "LazyLoadingImage"
    \/ v.type = "str" /\ v.value # <<>>

HTTP == <<"h", "t", "t", "p">>

\* str.startswith(prefix)
StartsWith(s, prefix) ==
    /\ Len(s) >= Len(prefix)
    /\ SubSeq(s, 1, Len(prefix)) = prefix

\* Python's range(n) for the outer loop: 0, 1, ..., n-1; empty when n <= 0.
Range(n) == 0 .. (n - 1)

\* Image references a user can pass.
RefUrl == <<"h", "t", "t", "p", ":", "/", "/", "x">>
RefLocal == <<"p", ".", "j", "p", "g">>
RefHttpDir == <<"h", "t", "t", "p", "d", "i", "r">>
RefShort == <<"h", "t", "t">>
RefEmpty == <<>>

\* imaginairy.samplers.base.SAMPLER_TYPE_OPTIONS
SAMPLER_TYPE_OPTIONS == {"plms", "ddim", "k_lms"}

\* A choice option that validates nothing (mutation of ChoiceOk).
ChoiceAcceptsAll(value, choices) == TRUE

\* click.Choice: the value must be one of the choices.
ChoiceOk(value, choices) == value \in choices

SeqsUpTo(S, n) == UNION {[1 .. k -> S] : k \in 0 .. n}

PromptTexts == {"a cat", "a dog"}

\* The options that are carried into every ImaginePrompt unchanged.
DefaultOptions ==
    [prompt_strength |-> "7.5", init_image_strength |-> "0.6",
     height |-> 512, width |-> 512, steps |-> 40,
     upscale |-> FALSE, fix_faces |-> FALSE,
     mask_prompt |-> None, mask_mode |-> "replace", mask_expansion |-> 2]
OtherOptions ==
    [prompt_strength |-> "9.0", init_image_strength |-> "0.3",
     height |-> 576, width |-> 448, steps |-> 20,
     upscale |-> TRUE, fix_faces |-> FALSE,
     mask_prompt |-> Some("the sky"), mask_mode |-> "keep", mask_expansion |-> -3]
FacesOptions ==
    [DefaultOptions EXCEPT !.fix_faces = TRUE, !.init_image_strength = "1.0"]

MakeArgs(texts, repeats, seed, sampler, init, mask, o) ==
    [prompt_texts |-> texts, repeats |-> repeats, seed |-> seed,
     sampler_type |-> sampler, init_image |-> init, mask_image |-> mask,
     prompt_strength |-> o.prompt_strength,
     init_image_strength |-> o.init_image_strength,
     height |-> o.height, width |-> o.width, steps |-> o.steps,
     upscale |-> o.upscale, fix_faces |-> o.fix_faces,
     mask_prompt |-> o.mask_prompt, mask_mode |-> o.mask_mode,
     mask_expansion |-> o.mask_expansion]

\* What click passes when only defaults apply.
DefaultArgs == MakeArgs(<<>>, 1, None, "plms", NoneValue, NoneValue, DefaultOptions)

----------------------------------------------------------------------------
(* imagine_cmd *)

\* ImaginePrompt(prompt_text, prompt_strength=..., ...): the job description
\* carries what it is constructed with; kw holds the keyword arguments.
ImaginePrompt(prompt_text, kw) ==
    [prompt_text |-> prompt_text, prompt_strength |-> kw.prompt_strength,
     init_image |-> kw.init_image,
     init_image_strength |-> kw.init_image_strength,
     seed |-> kw.seed, sampler_type |-> kw.sampler_type, steps |-> kw.steps,
     height |-> kw.height, width |-> kw.width, mask_image |-> kw.mask_image,
     mask_prompt |-> kw.mask_prompt, mask_expansion |-> kw.mask_expansion,
     mask_mode |-> kw.mask_mode, upscale |-> kw.upscale,
     fix_faces |-> kw.fix_faces]

\* A sampler decision that never overrides (mutation of ResolveSampler).
ResolveSamplerNoOverride(init, sampler) == sampler

\* The sampler decision of lines 188-189.
ResolveSampler(init, sampler) ==
    IF Truthy(init) /\ sampler # "ddim" THEN "ddim" ELSE sampler

\* The init-image wrapping of lines 192-193.
WrapInitImage(init) ==
    IF Truthy(init) /\ StartsWith(init.value, HTTP)
    THEN LazyLoadingImageUrl(init.value)
    ELSE init

\* The keyword arguments of the constructor call of lines 201-214; a is
\* args, st and ii are the locals sampler_type and init_image.
Keywords(a, st, ii) ==
    [prompt_strength |-> a.prompt_strength, init_image |-> ii,
     init_image_strength |-> a.init_image_strength, seed |-> a.seed,
     sampler_type |-> st, steps |-> a.steps, height |-> a.height,
     width |-> a.width, mask_image |-> a.mask_image,
     mask_prompt |-> a.mask_prompt, mask_expansion |-> a.mask_expansion,
     mask_mode |-> a.mask_mode, upscale |-> a.upscale,
     fix_faces |-> a.fix_faces]

\* A constructor call that varies the seed and fills in an absent one
\* (mutation of NewPrompt).
NewPromptSeedPlusOne(prompt_text, a, st, ii) ==
    ImaginePrompt(prompt_text,
                  [Keywords(a, st, ii) EXCEPT
                      !.seed = IF a.seed = None THEN Some(1)
                               ELSE Some(a.seed[1] + 1)])

\* A constructor call with height/width and upscale/fix_faces crossed
\* (mutation of NewPrompt).
NewPromptSwapped(prompt_text, a, st, ii) ==
    ImaginePrompt(prompt_text,
                  [Keywords(a, st, ii) EXCEPT
                      !.height = a.width, !.width = a.height,
                      !.upscale = a.fix_faces, !.fix_faces = a.upscale])

\* The constructor call of lines 199-215.
NewPrompt(prompt_text, a, st, ii) ==
    ImaginePrompt(prompt_text, Keywords(a, st, ii))

\* for prompt_text in prompt_texts: ... prompts.append(prompt)
RECURSIVE InnerLoop(_, _, _, _, _)
InnerLoop(acc, i, a, st, ii) ==
    IF i > Len(a.prompt_texts)
    THEN acc
    ELSE InnerLoop(Append(acc, NewPrompt(a.prompt_texts[i], a, st, ii)),
                   i + 1, a, st, ii)

\* for _ in range(repeats): <inner loop>
RECURSIVE OuterLoop(_, _, _, _, _)
OuterLoop(acc, r, a, st, ii) ==
    IF r \notin Range(a.repeats)
    THEN acc
    ELSE OuterLoop(InnerLoop(acc, 1, a, st, ii), r + 1, a, st, ii)

\* The same loops nested the other way round (mutation of BuildPrompts).
RECURSIVE RepeatEach(_, _, _)
RepeatEach(acc, p, n) == IF n <= 0 THEN acc ELSE RepeatEach(Append(acc, p), p, n - 1)
RECURSIVE PromptMajor(_, _, _, _, _)
PromptMajor(acc, i, a, st, ii) ==
    IF i > Len(a.prompt_texts)
    THEN acc
    ELSE PromptMajor(RepeatEach(acc, NewPrompt(a.prompt_texts[i], a, st, ii),
                                a.repeats),
                     i + 1, a, st, ii)
BuildPromptsPromptMajor(a, st, ii) == PromptMajor(<<>>, 1, a, st, ii)
\* The loops with an off-by-one range, one pass too many (mutation of
\* BuildPrompts).
BuildPromptsOneMore(a, st, ii) ==
    OuterLoop(<<>>, 0, [a EXCEPT !.repeats = a.repeats + 1], st, ii)

\* prompts = []; the nested loops of lines 195-216.
BuildPrompts(a, st, ii) == OuterLoop(<<>>, 0, a, st, ii)

\* click parses the options (lines 50-152); an option value outside its
\* click.Choice is a usage error raised before imagine_cmd is entered.
ParseArgs ==
    /\ cmd = "generate"
    /\ pc = "cli"
    /\ IF ChoiceOk(args.sampler_type, SAMPLER_TYPE_OPTIONS)
       THEN /\ pc' = "entered"
            /\ error' = error
       ELSE /\ pc' = "usage_error"
            /\ error' = "UsageError"
    /\ UNCHANGED <<cmd, args, image_filepaths, sampler_type, init_image,
                   total_image_count, switched, prompts, batch, calls, imgs,
                   out, attempted, failed>>

\* Lines 184-190: the image count is computed and logged, then the sampler
\* is reconciled with the presence of an init image.
SamplerPolicy ==
    /\ cmd = "generate"
    /\ pc = "entered"
    /\ total_image_count' = Len(args.prompt_texts) * args.repeats
    /\ sampler_type' = ResolveSampler(init_image, sampler_type)
    /\ switched' = (Truthy(init_image) /\ sampler_type # "ddim")
    /\ pc' = "sampler_resolved"
    /\ UNCHANGED <<cmd, args, image_filepaths, init_image, prompts, batch,
                   calls, imgs, out, attempted, failed, error>>

\* Lines 192-193.
ResolveInitImage ==
    /\ cmd = "generate"
    /\ pc = "sampler_resolved"
    /\ init_image' = WrapInitImage(init_image)
    /\ pc' = "image_resolved"
    /\ UNCHANGED <<cmd, args, image_filepaths, sampler_type,
                   total_image_count, switched, prompts, batch, calls, imgs,
                   out, attempted, failed, error>>

\* Lines 195-216.
ExpandBatch ==
    /\ cmd = "generate"
    /\ pc = "image_resolved"
    /\ prompts' = BuildPrompts(args, sampler_type, init_image)
    /\ pc' = "built"
    /\ UNCHANGED <<cmd, args, image_filepaths, sampler_type, init_image,
                   total_image_count, switched, batch, calls, imgs, out,
                   attempted, failed, error>>

\* Lines 218-226: the list is handed to imagine_image_files.
Dispatch ==
    /\ cmd = "generate"
    /\ pc = "built"
    /\ batch' = prompts
    /\ calls' = calls + 1
    /\ pc' = "dispatching"
    /\ UNCHANGED <<cmd, args, image_filepaths, sampler_type, init_image,
                   total_image_count, switched, prompts, imgs, out,
                   attempted, failed, error>>

\* imagine_image_files: the rendering backend attempts the next job and
\* records a result or a per-job failure.
DispatchJob ==
    /\ cmd = "generate"
    /\ pc = "dispatching"
    /\ attempted < Len(batch)
    /\ attempted' = attempted + 1
    /\ \E ok \in BOOLEAN : failed' = IF ok THEN failed ELSE failed + 1
    /\ UNCHANGED <<cmd, pc, args, image_filepaths, sampler_type, init_image,
                   total_image_count, switched, prompts, batch, calls, imgs,
                   out, error>>

\* imagine_image_files returns once every job was attempted.
DispatchReturn ==
    /\ cmd = "generate"
    /\ pc = "dispatching"
    /\ attempted = Len(batch)
    /\ pc' = "done"
    /\ UNCHANGED <<cmd, args, image_filepaths, sampler_type, init_image,
                   total_image_count, switched, prompts, batch, calls, imgs,
                   out, attempted, failed, error>>

----------------------------------------------------------------------------
(* describe *)

\* A classification by the prefix "htt" found anywhere in the value
\* (mutation of Classify).
ClassifyContains(p) ==
    IF \E k \in 1 .. Len(p) : StartsWith(SubSeq(p, k, Len(p)), <<"h", "t", "t">>)
    THEN LazyLoadingImageUrl(p)
    ELSE LazyLoadingImageFilepath(p)

\* Lines 240-243.
Classify(p) ==
    IF StartsWith(p, HTTP)
    THEN LazyLoadingImageUrl(p)
    ELSE LazyLoadingImageFilepath(p)

\* generate_caption(img.copy()): the caption of the resolved image.
generate_caption(img) == [caption_of |-> img.value]

\* One pass of the loop of lines 239-244.
DescribeCollect ==
    /\ cmd = "describe"
    /\ pc = "cli"
    /\ Len(imgs) < Len(image_filepaths)
    /\ imgs' = Append(imgs, Classify(image_filepaths[Len(imgs) + 1]))
    /\ UNCHANGED <<cmd, pc, args, image_filepaths, sampler_type, init_image,
                   total_image_count, switched, prompts, batch, calls, out,
                   attempted, failed, error>>

\* The loop of lines 239-244 is exhausted.
DescribeCollected ==
    /\ cmd = "describe"
    /\ pc = "cli"
    /\ Len(imgs) = Len(image_filepaths)
    /\ pc' = "captioning"
    /\ UNCHANGED <<cmd, args, image_filepaths, sampler_type, init_image,
                   total_image_count, switched, prompts, batch, calls, imgs,
                   out, attempted, failed, error>>

\* One pass of the loop of lines 245-246 in which img.copy() and
\* generate_caption return: the caption is printed.
DescribePrint ==
    /\ cmd = "describe"
    /\ pc = "captioning"
    /\ attempted < Len(imgs)
    /\ attempted' = attempted + 1
    /\ out' = Append(out, generate_caption(imgs[attempted + 1]))
    /\ UNCHANGED <<cmd, pc, args, image_filepaths, sampler_type, init_image,
                   total_image_count, switched, prompts, batch, calls, imgs,
                   failed, error>>

\* One pass of the loop of lines 245-246 in which img.copy() (the image
\* cannot be fetched or read) or generate_caption raises: nothing catches
\* the exception, so it leaves the loop and the command.
DescribeRaise ==
    /\ cmd = "describe"
    /\ pc = "captioning"
    /\ attempted < Len(imgs)
    /\ attempted' = attempted + 1
    /\ error' = "Exception"
    /\ pc' = "crashed"
    /\ UNCHANGED <<cmd, args, image_filepaths, sampler_type, init_image,
                   total_image_count, switched, prompts, batch, calls, imgs,
                   out, failed>>

\* The loop of lines 245-246 is exhausted.
DescribeReturn ==
    /\ cmd = "describe"
    /\ pc = "captioning"
    /\ attempted = Len(imgs)
    /\ pc' = "done"
    /\ UNCHANGED <<cmd, args, image_filepaths, sampler_type, init_image,
                   total_image_count, switched, prompts, batch, calls, imgs,
                   out, attempted, failed, error>>

----------------------------------------------------------------------------
(* Specification *)

GenerateArgs ==
    {MakeArgs(texts, repeats, seed, sampler, init, mask, o) :
        texts \in SeqsUpTo(PromptTexts, MaxPrompts),
        repeats \in (0 - 1) .. MaxRepeats,
        seed \in {None, Some(0), Some(7)},
        sampler \in SAMPLER_TYPE_OPTIONS \cup {"bogus"},
        init \in {NoneValue, Str(RefEmpty), Str(RefLocal), Str(RefUrl)},
        mask \in {NoneValue, Str(RefLocal), Str(RefUrl)},
        o \in {DefaultOptions, OtherOptions, FacesOptions}}

DescribeArgs == SeqsUpTo({RefUrl, RefLocal, RefHttpDir, RefShort}, MaxImages)

Init ==
    /\ cmd \in {"generate", "describe"}
    /\ pc = "cli"
    /\ IF cmd = "generate"
       THEN /\ args \in GenerateArgs
            /\ image_filepaths = <<>>
       ELSE /\ args = DefaultArgs
            /\ image_filepaths \in DescribeArgs
    /\ sampler_type = args.sampler_type
    /\ init_image = args.init_image
    /\ total_image_count = 0
    /\ switched = FALSE
    /\ prompts = <<>>
    /\ batch = <<>>
    /\ calls = 0
    /\ imgs = <<>>
    /\ out = <<>>
    /\ attempted = 0
    /\ failed = 0
    /\ error = ""

Next ==
    \/ ParseArgs
    \/ SamplerPolicy
    \/ ResolveInitImage
    \/ ExpandBatch
    \/ Dispatch
    \/ DispatchJob
    \/ DispatchReturn
    \/ DescribeCollect
    \/ DescribeCollected
    \/ DescribePrint
    \/ DescribeRaise
    \/ DescribeReturn

Spec == Init /\ [][Next]_vars

----------------------------------------------------------------------------
(* Properties *)

Terminal == {"done", "crashed", "usage_error"}

\* The batch was handed to imagine_image_files.
Dispatched == cmd = "generate" /\ calls > 0

ValidSampler == args.sampler_type \in SAMPLER_TYPE_OPTIONS

\* An init image is given: a non-empty --init-image value.
InitImagePresent ==
    args.init_image.type = "str" /\ Len(args.init_image.value) > 0

\* p begins with the four characters h, t, t, p.
BeginsWithHttp(p) ==
    /\ Len(p) >= 4
    /\ p[1] = "h" /\ p[2] = "t" /\ p[3] = "t" /\ p[4] = "p"

\* The image source with origin RemoteUrl(p) or LocalPath(p), by prefix.
SourceOf(p) ==
    [type |-> "LazyLoadingImage",
     arg |-> IF BeginsWithHttp(p) THEN "url" ELSE "filepath",
     value |-> p]

PolicySampler == IF InitImagePresent THEN "ddim" ELSE args.sampler_type

\* C1: the batch handed to the dispatcher has N*R specs (N prompt texts,
\* R >= 0 repeats) and the spec at position r*N + i (counted from 0)
\* carries prompt_texts[i]: repeat index outer, prompt order inner.
C1_BatchOrder ==
    (Dispatched /\ args.repeats >= 0) =>
        LET N == Len(args.prompt_texts)
            R == args.repeats
        IN /\ Len(batch) = N * R
           /\ \A r \in 0 .. R - 1 : \A i \in 0 .. N - 1 :
                batch[r * N + i + 1].prompt_text = args.prompt_texts[i + 1]

C1_Witness ==
    /\ Dispatched
    /\ Len(args.prompt_texts) = 2
    /\ args.prompt_texts[1] # args.prompt_texts[2]
    /\ args.repeats = 2
    /\ Len(batch) = 4

\* C2: with an init image every spec built and dispatched has sampler ddim
\* whatever sampler was requested, without one every spec has the requested
\* sampler; the override raises no error and the command runs to the end
\* with the batch dispatched.
C2_SamplerPolicy ==
    (cmd = "generate" /\ ValidSampler) =>
        /\ \A k \in 1 .. Len(prompts) : prompts[k].sampler_type = PolicySampler
        /\ \A k \in 1 .. Len(batch) : batch[k].sampler_type = PolicySampler
        /\ error = ""
        /\ pc # "usage_error"
        /\ pc = "done" =>
             /\ calls = 1
             /\ Len(batch) = Len(args.prompt_texts)
                              * (IF args.repeats > 0 THEN args.repeats ELSE 0)

C2_Witness ==
    /\ Dispatched
    /\ pc = "done"
    /\ InitImagePresent
    /\ args.sampler_type = "plms"
    /\ switched
    /\ Len(batch) >= 2
    /\ \A k \in 1 .. Len(batch) : batch[k].sampler_type = "ddim"

\* C3 as stated: an invocation with non-positive repeats or an unsupported
\* sampler name ends in an error, builds no spec and dispatches nothing.
C3_RejectsNonPositiveRepeats ==
    (cmd = "generate" /\ (args.repeats <= 0 \/ ~ValidSampler)) =>
        /\ prompts = <<>>
        /\ calls = 0
        /\ pc \in Terminal => error # ""

\* C3 amended: an unsupported sampler name is a usage error raised before
\* the command body runs (no local is touched, no spec is built, nothing is
\* dispatched); non-positive repeats with a supported sampler raise no
\* error, build no spec, and the empty batch is still dispatched.
C3_RejectsUnsupportedSampler ==
    cmd = "generate" =>
        /\ ~ValidSampler =>
             /\ pc \in {"cli", "usage_error"}
             /\ pc = "usage_error" => error = "UsageError"
             /\ prompts = <<>> /\ batch = <<>> /\ calls = 0 /\ attempted = 0
             /\ sampler_type = args.sampler_type
             /\ init_image = args.init_image
        /\ (ValidSampler /\ args.repeats <= 0) =>
             /\ error = ""
             /\ pc # "usage_error"
             /\ prompts = <<>> /\ batch = <<>>
             /\ pc = "done" => calls = 1

C3_Witness ==
    /\ cmd = "generate"
    /\ ~ValidSampler
    /\ pc = "usage_error"
    /\ error = "UsageError"
    /\ Len(args.prompt_texts) > 0
    /\ args.repeats > 0

\* C4: a failure on one job or image does not keep the later ones from
\* being attempted: when either command has ended, every job of the batch
\* (generate) and every image given (describe) has been attempted.
C4_FailureIsolation ==
    /\ (cmd = "generate" /\ pc = "done") => attempted = Len(batch)
    /\ (cmd = "describe" /\ pc \in Terminal) =>
         attempted = Len(image_filepaths)

\* C5: every spec carries the seed exactly as supplied: the value v when
\* --seed v is given, and no seed when it is not.
C5_SeedPreserved ==
    cmd = "generate" =>
        /\ \A k \in 1 .. Len(prompts) : prompts[k].seed = args.seed
        /\ \A k \in 1 .. Len(batch) : batch[k].seed = args.seed

C5_Witness ==
    /\ Dispatched
    /\ Len(batch) >= 2
    /\ args.seed = Some(7)
    /\ batch[1].seed = Some(7)
    /\ batch[Len(batch)].seed = Some(7)

\* C6: with no prompt texts (any repeats) or with repeats = 0 (any prompt
\* texts) the spec sequence is empty and no error is raised.
C6_EmptyBatch ==
    (/\ cmd = "generate"
     /\ ValidSampler
     /\ (Len(args.prompt_texts) = 0 \/ args.repeats = 0)) =>
        /\ prompts = <<>>
        /\ batch = <<>>
        /\ error = ""
        /\ pc \notin {"usage_error", "crashed"}

C6_Witness ==
    /\ cmd = "generate"
    /\ pc = "done"
    /\ calls = 1
    /\ Len(args.prompt_texts) = 2
    /\ args.repeats = 0
    /\ batch = <<>>
    /\ error = ""

\* C7: describe, given k image references, has emitted exactly k captions
\* when it ends, the j-th being the caption of the j-th reference.
C7_DescribeEmitsAllInOrder ==
    (cmd = "describe" /\ pc \in Terminal) =>
        /\ Len(out) = Len(image_filepaths)
        /\ \A j \in 1 .. Len(out) :
             out[j] = [caption_of |-> image_filepaths[j]]

\* C8: describe gives the j-th reference p the source RemoteUrl(p) when p
\* begins with "http" and LocalPath(p) otherwise; classification checks
\* nothing else and rejects no reference, so every reference gets a source.
C8_OriginClassification ==
    cmd = "describe" =>
        /\ Len(imgs) <= Len(image_filepaths)
        /\ \A j \in 1 .. Len(imgs) : imgs[j] = SourceOf(image_filepaths[j])
        /\ pc = "cli" => error = ""
        /\ pc # "cli" => Len(imgs) = Len(image_filepaths)

C8_Witness ==
    /\ cmd = "describe"
    /\ pc = "captioning"
    /\ image_filepaths = <<RefHttpDir, RefShort>>
    /\ imgs[1].arg = "url"
    /\ imgs[2].arg = "filepath"

\* C9: every spec of the batch carries a supplied init image and a supplied
\* mask image as a LazyImageSource (RemoteUrl when the value begins with
\* "http", LocalPath otherwise), never as the raw string.
C9_ImagesAreLazySources ==
    cmd = "generate" =>
        \A k \in 1 .. Len(batch) :
            /\ args.init_image.type = "str" =>
                 batch[k].init_image = SourceOf(args.init_image.value)
            /\ args.mask_image.type = "str" =>
                 batch[k].mask_image = SourceOf(args.mask_image.value)

\* The spec with its prompt text blanked: what is left is shared.
Shared(spec) == [spec EXCEPT !.prompt_text = ""]

\* The shared fields as the command line gives them, with the sampler the
\* policy resolves and the init image ii.
SharedExpected(ii) ==
    [prompt_text |-> "", prompt_strength |-> args.prompt_strength,
     init_image |-> ii, init_image_strength |-> args.init_image_strength,
     seed |-> args.seed, sampler_type |-> PolicySampler,
     steps |-> args.steps, height |-> args.height, width |-> args.width,
     mask_image |-> args.mask_image, mask_prompt |-> args.mask_prompt,
     mask_expansion |-> args.mask_expansion, mask_mode |-> args.mask_mode,
     upscale |-> args.upscale, fix_faces |-> args.fix_faces]

\* C10 as stated: any two specs of the batch agree on every field but the
\* prompt text, and each such field equals the command-line value, except
\* the sampler, which is the policy-resolved one.
C10_SharedEqualCommandLine ==
    (cmd = "generate" /\ ValidSampler) =>
        /\ \A j, k \in 1 .. Len(batch) : Shared(batch[j]) = Shared(batch[k])
        /\ \A k \in 1 .. Len(batch) :
             Shared(batch[k]) = SharedExpected(args.init_image)

\* C10 amended: as stated, except that besides the sampler the init image
\* is not the raw command-line value when that value begins with "http":
\* it is then the LazyLoadingImage with that URL.
C10_SharedParameters ==
    (cmd = "generate" /\ ValidSampler) =>
        LET ii == IF InitImagePresent /\ BeginsWithHttp(args.init_image.value)
                  THEN [type |-> "LazyLoadingImage", arg |-> "url",
                        value |-> args.init_image.value]
                  ELSE args.init_image
        IN /\ \A j, k \in 1 .. Len(batch) : Shared(batch[j]) = Shared(batch[k])
           /\ \A k \in 1 .. Len(batch) : Shared(batch[k]) = SharedExpected(ii)
           /\ \A k \in 1 .. Len(prompts) : Shared(prompts[k]) = SharedExpected(ii)

C10_Witness ==
    /\ Dispatched
    /\ Len(batch) = 4
    /\ batch[1].prompt_text # batch[2].prompt_text
    /\ args.init_image = Str(RefUrl)
    /\ batch[4].init_image.type = "LazyLoadingImage"
    /\ args.height # args.width
    /\ args.upscale # args.fix_faces

====
